---- MODULE Spec2Model ----
(***************************************************************************)
(* Model of scripts/prepare/core-bundle.ts: the build driver `run`, the    *)
(* config normaliser getOptionsArray, the option layers of getBaseOptions  *)
(* and mergeOptions, the entry resolver, the type-stub generator and the   *)
(* manifest synthesizer updatePackageJson.                                 *)
(*                                                                         *)
(* Strings are sequences of one-character strings, so that path parsing,   *)
(* String.replace, path.join and string concatenation are computed the way *)
(* the code computes them.  A JS object is a sequence of [k, v] members in *)
(* insertion order, which is the order JSON.stringify prints them in.      *)
(***************************************************************************)
EXTENDS Integers, Sequences, FiniteSets, TLC

(***************************************************************************)
(* Bounds of the model                                                     *)
(***************************************************************************)
\* longest array of descriptors a config source supplies
MaxConfigs == 2
\* longest entry list handed to the manifest synthesizer
MaxEntries == 2
\* how often the synthesizer is run on its own output
MaxRuns == 2

(***************************************************************************)
(* String literals                                                         *)
(***************************************************************************)
S_src == <<".", "/", "s", "r", "c">>
S_dist == <<".", "/", "d", "i", "s", "t">>
S_dotSlash == <<".", "/">>
S_dts == <<".", "d", ".", "t", "s">>
S_js == <<".", "j", "s">>
S_mjs == <<".", "m", "j", "s">>
S_packageJson == <<".", "/", "p", "a", "c", "k", "a", "g", "e", ".", "j", "s", "o", "n">>
S_types == <<"t", "y", "p", "e", "s">>
S_require == <<"r", "e", "q", "u", "i", "r", "e">>
S_module == <<"m", "o", "d", "u", "l", "e">>
S_name == <<"n", "a", "m", "e">>
S_version == <<"v", "e", "r", "s", "i", "o", "n">>
S_exports == <<"e", "x", "p", "o", "r", "t", "s">>
S_main == <<"m", "a", "i", "n">>
S_zeta == <<"z", "e", "t", "a">>
S_entry == <<"e", "n", "t", "r", "y">>
S_format == <<"f", "o", "r", "m", "a", "t">>
S_default == <<"d", "e", "f", "a", "u", "l", "t">>

\* the option names of getBaseOptions, lines 167-194
S_treeshake == <<"t", "r", "e", "e", "s", "h", "a", "k", "e">>
S_sourcemap == <<"s", "o", "u", "r", "c", "e", "m", "a", "p">>
S_outDir == <<"o", "u", "t", "D", "i", "r">>
S_esbuildOptions == <<"e", "s", "b", "u", "i", "l", "d", "O", "p", "t", "i", "o", "n", "s">>
S_watch == <<"w", "a", "t", "c", "h">>
S_clean == <<"c", "l", "e", "a", "n">>
S_minifyWhitespace == <<"m", "i", "n", "i", "f", "y", "W", "h", "i", "t", "e", "s", "p", "a", "c", "e">>
S_minifyIdentifiers == <<"m", "i", "n", "i", "f", "y", "I", "d", "e", "n", "t", "i", "f", "i", "e", "r", "s">>
S_minifySyntax == <<"m", "i", "n", "i", "f", "y", "S", "y", "n", "t", "a", "x">>
\* process.cwd(), line 283
S_cwd == <<"/", "p", "k", "g">>

\* format tags: the three of the static tables and one that is in neither
T_cjs == <<"c", "j", "s">>
T_esm == <<"e", "s", "m">>
T_iife == <<"i", "i", "f", "e">>
T_umd == <<"u", "m", "d">>

\* source files used as entries
F_a == <<".", "/", "s", "r", "c", "/", "a", ".", "t", "s">>
F_fooBar == <<".", "/", "s", "r", "c", "/", "f", "o", "o", "/", "b", "a", "r", ".", "t", "s">>
F_index == <<".", "/", "s", "r", "c", "/", "i", "n", "d", "e", "x", ".", "t", "s">>
F_extra == <<".", "/", "s", "r", "c", "/", "e", "x", "t", "r", "a", ".", "t", "s">>
\* the three fixed prebuild entries (lines 70, 74, 78 and 115-117)
F_preManagerRuntime == <<".", "/", "s", "r", "c", "/", "p", "r", "e", "b", "u", "i", "l", "d", "/", "m", "a", "n", "a", "g", "e", "r", "/", "r", "u", "n", "t", "i", "m", "e", ".", "t", "s">>
F_preManagerGlobals == <<".", "/", "s", "r", "c", "/", "p", "r", "e", "b", "u", "i", "l", "d", "/", "m", "a", "n", "a", "g", "e", "r", "/", "g", "l", "o", "b", "a", "l", "s", "-", "r", "u", "n", "t", "i", "m", "e", ".", "t", "s">>
F_prePreviewGlobals == <<".", "/", "s", "r", "c", "/", "p", "r", "e", "b", "u", "i", "l", "d", "/", "p", "r", "e", "v", "i", "e", "w", "/", "g", "l", "o", "b", "a", "l", "s", "-", "r", "u", "n", "t", "i", "m", "e", ".", "t", "s">>

(***************************************************************************)
(* Generic sequence helpers                                                *)
(***************************************************************************)
RECURSIVE Flatten(_)
Flatten(ss) == IF ss = <<>> THEN <<>> ELSE Head(ss) \o Flatten(Tail(ss))

\* every sequence over S of length at most n
SeqsUpTo(S, n) == UNION {[1..k -> S] : k \in 0..n}

Last(s) == s[Len(s)]

(***************************************************************************)
(* node:path, for the two separator conventions a host can have.  Drive    *)
(* letters and UNC roots are not modelled: no path of the program has one. *)
(***************************************************************************)
Hosts == {"posix", "win32"}

\* path.sep
Sep(host) == IF host = "win32" THEN "\\" ELSE "/"

\* isPosixPathSeparator / isPathSeparator
IsSep(host, c) == c = "/" \/ (host = "win32" /\ c = "\\")

\* index of the last separator of p, 0 if there is none
LastSepIndex(host, p) ==
    LET idx == {i \in 1..Len(p) : IsSep(host, p[i])}
    IN  IF idx = {} THEN 0 ELSE CHOOSE i \in idx : \A j \in idx : j <= i

\* index of the last "." of base that starts an extension, 0 if there is none
ExtIndex(base) ==
    LET idx == {i \in 2..Len(base) : base[i] = "."}
    IN  IF idx = {} \/ base = <<".", ".">> THEN 0
        ELSE CHOOSE i \in idx : \A j \in idx : j <= i

\* path.parse(p), for a p without trailing separator
Parse(host, p) ==
    LET cut  == LastSepIndex(host, p)
        base == SubSeq(p, cut + 1, Len(p))
        dot  == ExtIndex(base)
    IN  [dir  |-> IF cut = 0 THEN <<>>
                  ELSE IF cut = 1 THEN SubSeq(p, 1, 1)
                  ELSE SubSeq(p, 1, cut - 1),
         base |-> base,
         name |-> IF dot = 0 THEN base ELSE SubSeq(base, 1, dot - 1),
         ext  |-> IF dot = 0 THEN <<>> ELSE SubSeq(base, dot, Len(base))]

\* the segments of p between separators (empty segments included)
RECURSIVE SplitSegs(_, _)
SplitSegs(host, p) ==
    LET idx == {i \in 1..Len(p) : IsSep(host, p[i])}
    IN  IF idx = {} THEN <<p>>
        ELSE LET i == CHOOSE k \in idx : \A j \in idx : k <= j
             IN  <<SubSeq(p, 1, i - 1)>> \o SplitSegs(host, SubSeq(p, i + 1, Len(p)))

\* normalizeString: drop "" and ".", resolve "..", keep ".." above the root
\* of a relative path
RECURSIVE ResolveSegs(_, _, _)
ResolveSegs(segs, acc, allowAboveRoot) ==
    IF segs = <<>> THEN acc
    ELSE LET s == Head(segs)
         IN  IF s = <<>> \/ s = <<".">>
                 THEN ResolveSegs(Tail(segs), acc, allowAboveRoot)
             ELSE IF s = <<".", ".">>
                 THEN IF acc # <<>> /\ Last(acc) # <<".", ".">>
                          THEN ResolveSegs(Tail(segs), SubSeq(acc, 1, Len(acc) - 1), allowAboveRoot)
                      ELSE IF allowAboveRoot
                          THEN ResolveSegs(Tail(segs), Append(acc, s), allowAboveRoot)
                      ELSE ResolveSegs(Tail(segs), acc, allowAboveRoot)
             ELSE ResolveSegs(Tail(segs), Append(acc, s), allowAboveRoot)

RECURSIVE JoinSegs(_, _)
JoinSegs(segs, sep) ==
    IF segs = <<>> THEN <<>>
    ELSE IF Len(segs) = 1 THEN Head(segs)
    ELSE Head(segs) \o <<sep>> \o JoinSegs(Tail(segs), sep)

\* path.normalize(p): the result uses the host's separator only
Normalize(host, p) ==
    IF p = <<>> THEN <<".">>
    ELSE LET isAbsolute == IsSep(host, p[1])
             trailing   == IsSep(host, Last(p))
             body       == JoinSegs(ResolveSegs(SplitSegs(host, p), <<>>, ~isAbsolute), Sep(host))
             tail       == IF body = <<>> /\ ~isAbsolute THEN <<".">> ELSE body
             withTrail  == IF tail # <<>> /\ trailing THEN tail \o <<Sep(host)>> ELSE tail
         IN  IF isAbsolute THEN <<Sep(host)>> \o withTrail ELSE withTrail

\* path.join(a, b): the host's join, as imported on line 1
Join(host, a, b) ==
    LET parts == SelectSeq(<<a, b>>, LAMBDA x : x # <<>>)
    IN  IF parts = <<>> THEN <<".">>
        ELSE Normalize(host, JoinSegs(parts, Sep(host)))

\* String.prototype.replace(pat, rep) with a string pattern: the first
\* occurrence only
Replace(s, pat, rep) ==
    LET idx == {i \in 1..(Len(s) - Len(pat) + 1) : SubSeq(s, i, i + Len(pat) - 1) = pat}
    IN  IF idx = {} THEN s
        ELSE LET i == CHOOSE k \in idx : \A j \in idx : k <= j
             IN  SubSeq(s, 1, i - 1) \o rep \o SubSeq(s, i + Len(pat), Len(s))

(***************************************************************************)
(* JS values.  Every value is a record [t, str, obj]: t is the kind, str   *)
(* the characters of a string, obj the members of an object or array in    *)
(* insertion order.                                                        *)
(***************************************************************************)
JUndefined == [t |-> "undefined", str |-> <<>>, obj |-> <<>>]
JNull == [t |-> "null", str |-> <<>>, obj |-> <<>>]
JStr(s) == [t |-> "string", str |-> s, obj |-> <<>>]
JObj(members) == [t |-> "object", str |-> <<>>, obj |-> members]
JArr(members) == [t |-> "array", str |-> <<>>, obj |-> members]

JNum == [t |-> "number", str |-> <<"1">>, obj |-> <<>>]
JBool == [t |-> "boolean", str |-> <<>>, obj |-> <<>>]

\* the booleans true and false
JBoolean(b) == [t |-> "boolean", str |-> IF b THEN <<"t", "r", "u", "e">> ELSE <<"f", "a", "l", "s", "e">>, obj |-> <<>>]

\* a function c => Object.assign(c, { members })
JFn(members) == [t |-> "function", str |-> <<>>, obj |-> members]

\* an array of the values vals
Arr(vals) == JArr([i \in 1..Len(vals) |-> [k |-> <<>>, v |-> vals[i]]])

\* the elements of an array, Object.values of an object
Values(v) == [i \in 1..Len(v.obj) |-> v.obj[i].v]

\* typeof v: null, arrays and objects are all "object"
TypeOf(v) ==
    CASE v.t \in {"undefined", "string", "number", "boolean", "function"} -> v.t
      [] OTHER -> "object"

\* Array.isArray(v)
IsArray(v) == v.t = "array"

HasKey(members, k) == \E i \in 1..Len(members) : members[i].k = k

\* o[k]
ObjGet(members, k) ==
    IF HasKey(members, k)
    THEN members[CHOOSE i \in 1..Len(members) : members[i].k = k].v
    ELSE JUndefined

\* o[k] = v: an existing key keeps its place, a new key goes last
ObjSet(members, k, v) ==
    IF HasKey(members, k)
    THEN [i \in 1..Len(members) |-> IF members[i].k = k THEN [k |-> k, v |-> v] ELSE members[i]]
    ELSE Append(members, [k |-> k, v |-> v])

\* !v
Falsy(v) ==
    \/ v.t \in {"undefined", "null"}
    \/ (v.t = "string" /\ v.str = <<>>)
    \/ v = JBoolean(FALSE)

\* { ...target, ...source }
RECURSIVE Spread(_, _)
Spread(target, source) ==
    IF source = <<>> THEN target
    ELSE Spread(ObjSet(target, Head(source).k, Head(source).v), Tail(source))

(***************************************************************************)
(* The static format tables, lines 234-243.  A tag that is not in a table  *)
(* looks up to undefined, modelled as the empty string (falsy as well).    *)
(***************************************************************************)
formatToType(format) ==
    CASE format = T_cjs -> S_require
      [] format = T_esm -> S_module
      [] format = T_iife -> S_module
      [] OTHER -> <<>>

formatToExt(format) ==
    CASE format = T_cjs -> S_js
      [] format = T_esm -> S_mjs
      [] format = T_iife -> S_js
      [] OTHER -> <<>>

(***************************************************************************)
(* updatePackageJson, lines 245-278                                        *)
(***************************************************************************)
\* line 256-257: the key of an entry's group
OutputKey(host, file) ==
    LET p == Parse(host, file)
    IN  S_dotSlash \o Join(host, Replace(p.dir, S_src, S_dist), p.name)

\* mutant: a condition that a group already has keeps its value
GroupStepFirstWins(host, acc, e) ==
    LET type == formatToType(e.format)
        key  == OutputKey(host, e.file)
        old  == IF HasKey(acc, key) THEN ObjGet(acc, key).obj
                ELSE <<[k |-> S_types, v |-> JStr(key \o S_dts)]>>
    IN  IF type = <<>> \/ HasKey(old, type) THEN acc
        ELSE ObjSet(acc, key, JObj(ObjSet(old, type, JStr(key \o formatToExt(e.format)))))

\* lines 250-262: one step of the reduce
GroupStep(host, acc, e) ==
    LET type == formatToType(e.format)
        key  == OutputKey(host, e.file)
        old  == IF HasKey(acc, key) THEN ObjGet(acc, key).obj
                ELSE <<[k |-> S_types, v |-> JStr(key \o S_dts)]>>
    IN  IF type = <<>> THEN acc
        ELSE ObjSet(acc, key, JObj(ObjSet(old, type, JStr(key \o formatToExt(e.format)))))

\* lines 249-265: entries.reduce(..., {}); the accumulator of a step is a
\* value (next ranges over the one result of the step), as in reduce, so
\* that a long entry list does not nest the steps
RECURSIVE GroupFrom(_, _, _)
GroupFrom(host, acc, entries) ==
    IF entries = <<>> THEN acc
    ELSE CHOOSE r \in {GroupFrom(host, next, rest) :
                          next \in {GroupStep(host, acc, Head(entries))},
                          rest \in {Tail(entries)}} : TRUE

Grouped(host, entries) == GroupFrom(host, <<>>, entries)

\* lines 267-270: the precondition gate on pkg.exports
ExportsGate(exports) ==
    (TypeOf(exports) = "object" /\ ~IsArray(exports)) \/ exports.t = "undefined"

\* mutant: the spread of the old exports is kept, and spreads pkg itself
NewExportsSpreadPkg(pkg, grouped) ==
    Spread(Spread(<<[k |-> S_packageJson, v |-> JStr(S_packageJson)]>>, pkg.obj), grouped)

\* mutant: the members of the old exports are kept (the spread of line 273)
NewExportsKeepOld(pkg, grouped) ==
    Spread(Spread(<<[k |-> S_packageJson, v |-> JStr(S_packageJson)]>>,
                  ObjGet(pkg.obj, S_exports).obj), grouped)

\* lines 271-275: the new value of pkg.exports
NewExports(pkg, grouped) ==
    Spread(<<[k |-> S_packageJson, v |-> JStr(S_packageJson)]>>, grouped)

\* sort-package-json: the manifest's top-level keys in the canonical order
\* (known fields in their fixed order, then the others); values untouched
KeyRank(k) ==
    CASE k = S_name -> 1
      [] k = S_version -> 2
      [] k = S_exports -> 3
      [] k = S_main -> 4
      [] OTHER -> 5

sortPkg(pkg) ==
    JObj(Flatten([r \in 1..5 |-> SelectSeq(pkg.obj, LAMBDA m : KeyRank(m.k) = r)]))

\* JSON.stringify(v, null, 2) + "\n" and JSON.parse back: the text is the
\* value's members in order, without the members whose value is undefined
RECURSIVE JsonText(_)
JsonText(v) ==
    [t   |-> v.t,
     str |-> v.str,
     obj |-> LET kept == SelectSeq(v.obj, LAMBDA m : m.v.t # "undefined")
             IN  [i \in 1..Len(kept) |-> [k |-> kept[i].k, v |-> JsonText(kept[i].v)]]]

\* updatePackageJson(pkg, entries) on a host: the manifest object after the
\* call, whether package.json was written, and the text written
updatePackageJson(host, pkg, entries) ==
    LET grouped == Grouped(host, entries)
        mutated == JObj(ObjSet(pkg.obj, S_exports, JObj(NewExports(pkg, grouped))))
    IN  IF ExportsGate(ObjGet(pkg.obj, S_exports))
        THEN [pkg |-> mutated, wrote |-> TRUE, text |-> JsonText(sortPkg(mutated))]
        ELSE [pkg |-> pkg, wrote |-> FALSE, text |-> JUndefined]

(***************************************************************************)
(* Build descriptors and config sources.  A descriptor is a JS object; a   *)
(* config source is the default export of tsup.config.ts: a value, or a    *)
(* sync or async function whose result, given the context it expects, is   *)
(* val.                                                                    *)
(***************************************************************************)
D_a == JObj(<<[k |-> S_entry, v |-> Arr(<<JStr(F_a)>>)], [k |-> S_format, v |-> Arr(<<JStr(T_cjs)>>)]>>)
D_fooBar == JObj(<<[k |-> S_entry, v |-> Arr(<<JStr(F_fooBar)>>)], [k |-> S_format, v |-> JStr(T_esm)]>>)
D_noEntry == JObj(<<[k |-> S_format, v |-> JStr(T_esm)]>>)

Descriptors == {D_a, D_fooBar, D_noEntry}

\* exports that are no descriptor and no array
OtherValues == {JNull, JUndefined, JStr(S_src), JNum, JBool}

\* a module object whose `default` member is v (the export seen through
\* CommonJS interop)
Wrapped(v) == JObj(<<[k |-> S_default, v |-> v]>>)

ConfigValues ==
    Descriptors \cup {Arr(ds) : ds \in SeqsUpTo(Descriptors, MaxConfigs)} \cup OtherValues
    \cup {Wrapped(D_a), Wrapped(JNull)}

ConfigSources ==
    {[kind |-> "value", async |-> FALSE, val |-> v] : v \in ConfigValues}
    \cup {[kind |-> "function", async |-> a, val |-> v] : a \in BOOLEAN, v \in ConfigValues}

\* line 29: reading m.default.default throws a TypeError when m.default is
\* null or undefined
ExportThrows(src) == src.kind = "value" /\ src.val.t \in {"null", "undefined"}

\* line 29: m.default.default || m.default
Unwrap(src) ==
    IF src.kind = "value" /\ ~Falsy(ObjGet(src.val.obj, S_default))
    THEN [kind |-> "value", async |-> FALSE, val |-> ObjGet(src.val.obj, S_default)]
    ELSE src

\* config(ctx): the function's result; it yields val for the empty context
\* object {}
CallConfig(src, ctx) == IF ctx = JObj(<<>>) THEN src.val ELSE JUndefined

\* [].concat(x): the elements of an array, any other value as one element
Concat(x) == IF IsArray(x) THEN Values(x) ELSE <<x>>

\* mutant: the function's result is pushed as it is, not spread
getOptionsArrayNoSpread(src) ==
    IF src.kind = "value" /\ IsArray(src.val) THEN Values(src.val)
    ELSE IF src.kind = "value" /\ TypeOf(src.val) = "object" THEN <<src.val>>
    ELSE IF src.kind = "function" THEN <<CallConfig(src, JObj(<<>>))>>
    ELSE <<>>

\* getOptionsArray, lines 148-159 (the awaited result)
getOptionsArray(src) ==
    IF src.kind = "value" /\ IsArray(src.val) THEN Values(src.val)
    ELSE IF src.kind = "value" /\ TypeOf(src.val) = "object" THEN <<src.val>>
    ELSE IF src.kind = "function" THEN Concat(CallConfig(src, JObj(<<>>)))
    ELSE <<>>

(***************************************************************************)
(* The option layers, lines 161-212                                        *)
(***************************************************************************)
\* lines 175-183: the esbuildOptions function of defaults, by the members it
\* assigns to the compiler options
EsbuildOptions(h, optimized) ==
    JFn(<<[k |-> <<"o", "u", "t", "b", "a", "s", "e">>, v |-> JStr(Join(h, S_cwd, <<"s", "r", "c">>))],
          [k |-> <<"l", "o", "g", "L", "e", "v", "e", "l">>, v |-> JStr(<<"e", "r", "r", "o", "r">>)],
          [k |-> <<"l", "e", "g", "a", "l", "C", "o", "m", "m", "e", "n", "t", "s">>, v |-> JStr(<<"n", "o", "n", "e">>)],
          [k |-> S_minifyWhitespace, v |-> JBoolean(optimized)],
          [k |-> S_minifyIdentifiers, v |-> JBoolean(FALSE)],
          [k |-> S_minifySyntax, v |-> JBoolean(optimized)]>>)

\* lines 185-189
Define ==
    JObj(<<[k |-> <<"p", "r", "o", "c", "e", "s", "s", ".", "e", "n", "v", ".", "N", "O", "D", "E", "_", "E", "N", "V">>, v |-> JStr(<<"\"", "p", "r", "o", "d", "u", "c", "t", "i", "o", "n", "\"">>)],
           [k |-> <<"p", "r", "o", "c", "e", "s", "s", ".", "e", "n", "v", ".", "N", "O", "D", "E", "_", "D", "E", "B", "U", "G">>, v |-> JStr(<<"\"", "\"">>)],
           [k |-> <<"p", "r", "o", "c", "e", "s", "s", ".", "e", "n", "v", ".", "F", "O", "R", "C", "E", "_", "S", "I", "M", "I", "L", "A", "R", "_", "I", "N", "S", "T", "E", "A", "D", "_", "O", "F", "_", "M", "A", "P">>, v |-> JStr(<<"\"", "f", "a", "l", "s", "e", "\"">>)]>>)

\* lines 167-190: the members of defaults
BaseDefaults(h, fl) ==
    <<[k |-> <<"c", "o", "n", "f", "i", "g">>, v |-> JBoolean(FALSE)],
      [k |-> <<"s", "i", "l", "e", "n", "t">>, v |-> JBoolean(~fl.watch)],
      [k |-> S_treeshake, v |-> JBoolean(TRUE)],
      [k |-> S_sourcemap, v |-> JBoolean(FALSE)],
      [k |-> <<"s", "h", "i", "m", "s">>, v |-> JBoolean(FALSE)],
      [k |-> S_outDir, v |-> JStr(Join(h, S_cwd, <<"d", "i", "s", "t">>))],
      [k |-> S_esbuildOptions, v |-> EsbuildOptions(h, fl.optimized)],
      [k |-> <<"d", "e", "f", "i", "n", "e">>, v |-> Define]>>

\* mutant: the overrides ask for a clean build
getBaseOptionsCleanTrue(h, fl) ==
    [defaults  |-> BaseDefaults(h, fl),
     overrides |-> <<[k |-> S_watch, v |-> JBoolean(fl.watch)],
                     [k |-> S_clean, v |-> JBoolean(TRUE)]>>]

\* getBaseOptions, lines 161-196: the members of defaults and of overrides
getBaseOptions(h, fl) ==
    [defaults  |-> BaseDefaults(h, fl),
     overrides |-> <<[k |-> S_watch, v |-> JBoolean(fl.watch)],
                     [k |-> S_clean, v |-> JBoolean(FALSE)]>>]

\* the decimal digits of n
RECURSIVE Decimal(_)
Decimal(n) ==
    LET d == <<"0", "1", "2", "3", "4", "5", "6", "7", "8", "9">>
    IN  IF n < 10 THEN <<d[n + 1]>> ELSE Decimal(n \div 10) \o <<d[(n % 10) + 1]>>

\* the own enumerable members `...v` copies: none of null and undefined (and
\* of numbers and booleans), the indexed characters of a string, the members
\* of an object
OwnMembers(v) ==
    IF v.t = "string" THEN [i \in 1..Len(v.str) |-> [k |-> Decimal(i - 1), v |-> JStr(<<v.str[i]>>)]]
    ELSE IF v.t = "array" THEN [i \in 1..Len(v.obj) |-> [k |-> Decimal(i - 1), v |-> v.obj[i].v]]
    ELSE IF v.t = "object" THEN v.obj
    ELSE <<>>

IsIndexKey(k) ==
    /\ k # <<>>
    /\ \A i \in 1..Len(k) : k[i] \in {"0", "1", "2", "3", "4", "5", "6", "7", "8", "9"}
    /\ (Len(k) > 1 => k[1] # "0")

\* an object enumerates its index keys before its other keys
IndexKeysFirst(members) ==
    SelectSeq(members, LAMBDA m : IsIndexKey(m.k)) \o SelectSeq(members, LAMBDA m : ~IsIndexKey(m.k))

\* mutant: the descriptor is spread last
mergeOptionsConfigLast(config, overrides, defaults) ==
    IndexKeysFirst(Spread(Spread(Spread(<<>>, defaults), overrides), OwnMembers(config)))

\* mergeOptions, lines 198-212: { ...defaults, ...config, ...overrides }
mergeOptions(config, overrides, defaults) ==
    IndexKeysFirst(Spread(Spread(Spread(<<>>, defaults), OwnMembers(config)), overrides))

\* descriptors that set fields of the other two layers
S_out == <<".", "/", "o", "u", "t">>

D_clean ==
    JObj(<<[k |-> S_entry, v |-> Arr(<<JStr(F_a)>>)], [k |-> S_format, v |-> JStr(T_esm)],
           [k |-> S_clean, v |-> JBoolean(TRUE)], [k |-> S_watch, v |-> JBoolean(TRUE)]>>)
D_outDir ==
    JObj(<<[k |-> S_entry, v |-> Arr(<<JStr(F_fooBar)>>)], [k |-> S_format, v |-> JStr(T_cjs)],
           [k |-> S_outDir, v |-> JStr(S_out)], [k |-> S_treeshake, v |-> JBoolean(FALSE)],
           [k |-> S_sourcemap, v |-> JUndefined]>>)
D_minify ==
    JObj(<<[k |-> S_entry, v |-> Arr(<<JStr(F_a)>>)], [k |-> S_format, v |-> JStr(T_cjs)],
           [k |-> S_esbuildOptions, v |-> JFn(<<[k |-> S_minifyIdentifiers, v |-> JBoolean(TRUE)]>>)]>>)

MergeDescriptors == {D_a, D_clean, D_outDir, D_minify}

(***************************************************************************)
(* The entry resolver, lines 53-60                                         *)
(***************************************************************************)
\* Object.values(v): the characters of a string, the members' values
\* otherwise
ObjectValues(v) ==
    IF v.t = "string" THEN [i \in 1..Len(v.str) |-> JStr(<<v.str[i]>>)] ELSE Values(v)

\* destructuring ({ entry, format }) throws a TypeError on null and undefined
Destructurable(config) == config.t \notin {"null", "undefined"}

\* mutant: the formats are crossed with the files, format by format
EntriesOfFormatMajor(config) ==
    LET entry  == ObjGet(config.obj, S_entry)
        files  == IF IsArray(entry) THEN Values(entry) ELSE ObjectValues(entry)
        fmts   == Concat(ObjGet(config.obj, S_format))
    IN  IF Falsy(entry) THEN <<>>
        ELSE Flatten([j \in 1..Len(fmts) |->
                 [i \in 1..Len(files) |-> [file |-> files[i].str, format |-> fmts[j].str]]])

\* lines 53-60 for one descriptor: its files crossed with its formats
EntriesOf(config) ==
    LET entry  == ObjGet(config.obj, S_entry)
        files  == IF IsArray(entry) THEN Values(entry) ELSE ObjectValues(entry)
        fmts   == Concat(ObjGet(config.obj, S_format))
    IN  IF Falsy(entry) THEN <<>>
        ELSE Flatten([i \in 1..Len(files) |->
                 [j \in 1..Len(fmts) |-> [file |-> files[i].str, format |-> fmts[j].str]]])

\* configs.flatMap(...)
ResolveEntries(cfgs) == Flatten([i \in 1..Len(cfgs) |-> EntriesOf(cfgs[i])])

\* descriptors with every shape of entry: one path as a string, a list, a
\* mapping of output name to path, none; and a format list or one format

D_index ==
    JObj(<<[k |-> S_entry, v |-> JStr(F_index)],
           [k |-> S_format, v |-> Arr(<<JStr(T_cjs), JStr(T_esm)>>)]>>)
D_indexList ==
    JObj(<<[k |-> S_entry, v |-> Arr(<<JStr(F_index)>>)],
           [k |-> S_format, v |-> Arr(<<JStr(T_cjs), JStr(T_esm)>>)]>>)
D_extra ==
    JObj(<<[k |-> S_entry, v |-> JObj(<<[k |-> <<"e", "x", "t", "r", "a">>, v |-> JStr(F_extra)]>>)],
           [k |-> S_format, v |-> JStr(T_esm)]>>)
D_mapTwo ==
    JObj(<<[k |-> S_entry, v |-> JObj(<<[k |-> <<"a">>, v |-> JStr(F_a)], [k |-> <<"b">>, v |-> JStr(F_fooBar)]>>)],
           [k |-> S_format, v |-> Arr(<<JStr(T_cjs), JStr(T_esm)>>)]>>)

ResolveDescriptors == {D_index, D_indexList, D_extra, D_mapTwo, D_noEntry}

\* the descriptor lists the resolver is run on: at most one descriptor of a
\* list gives its entry as a string
ResolveLists ==
    {ds \in SeqsUpTo(ResolveDescriptors, MaxConfigs) :
        \A i, j \in 1..Len(ds) : (ds[i] = D_index /\ ds[j] = D_index) => i = j}

\* lines 69-80: the three fixed entries appended to the manifest's entry list
PrebuildFiles == <<F_preManagerRuntime, F_preManagerGlobals, F_prePreviewGlobals>>

PrebuildEntries == [i \in 1..Len(PrebuildFiles) |-> [file |-> PrebuildFiles[i], format |-> T_iife]]

\* generateDTSMapperFile, lines 215-217: the stub's path below the working
\* directory
StubPath(host, file) ==
    LET p == Parse(host, file)
    IN  Join(host, Replace(p.dir, S_src, S_dist), p.name \o S_dts)

(***************************************************************************)
(* Existing manifests                                                      *)
(***************************************************************************)
S_pkg == <<"p", "k", "g">>
S_indexJs == <<".", "/", "i", "n", "d", "e", "x", ".", "j", "s">>
S_legacy == <<".", "/", "l", "e", "g", "a", "c", "y">>

M_name == [k |-> S_name, v |-> JStr(S_pkg)]
M_version == [k |-> S_version, v |-> JStr(<<"1", ".", "0", ".", "0">>)]
M_main == [k |-> S_main, v |-> JStr(S_indexJs)]
M_zeta == [k |-> S_zeta, v |-> JStr(S_pkg)]

\* the values package.json can hold in "exports"; undefined is the absent key
ExportsShapes ==
    {JUndefined, JNull, JStr(S_indexJs), Arr(<<JStr(S_indexJs)>>), JObj(<<>>),
     JObj(<<[k |-> S_legacy, v |-> JStr(<<".", "/", "l", "e", "g", "a", "c", "y", ".", "j", "s">>)]>>)}

ManifestWith(exports, sorted) ==
    LET e == IF exports.t = "undefined" THEN <<>> ELSE <<[k |-> S_exports, v |-> exports]>>
    IN  JObj(IF sorted THEN <<M_name, M_version>> \o e \o <<M_main, M_zeta>>
             ELSE <<M_zeta>> \o e \o <<M_main, M_version, M_name>>)

Manifests == {ManifestWith(e, b) : e \in ExportsShapes, b \in BOOLEAN}

(***************************************************************************)
(* State                                                                   *)
(***************************************************************************)
VARIABLES
    host,          \* the separator convention of the host
    flags,         \* [reset, optimized, watch], lines 23-25
    cfgSource,     \* the default export of tsup.config.ts
    unhandled,     \* what the runtime does with an unhandled rejection
    manifestFile,  \* package.json on disk
    dist,          \* the files of the output directory
    written,       \* the files this run has written so far
    pc,            \* where `run` is
    resetSt,       \* emptyDir, line 38
    cfgLoad,       \* import(...).then(getOptionsArray), lines 28-30
    configs,       \* its result
    pkgRead,       \* readFile(...).then(JSON.parse), lines 32-34
    pkg,           \* the manifest object in memory
    builds,        \* the per-descriptor build tasks, line 51
    options,       \* the effective options each of them was handed
    entries,       \* the entry list, lines 53-60
    stubs,         \* the generateDTSMapperFile tasks of line 63
    manifestTask,  \* the updatePackageJson task of line 66
    pendingText,   \* the text its writeFile is writing
    extra1,        \* the build of line 86
    extra2,        \* the build of line 120
    floats,        \* the generateDTSMapperFile tasks of lines 114-118
    failed,        \* the operations that have failed
    error,         \* what ended the run
    doneReported,  \* `run` resolved (and logged "done" unless CI is set)
    exitCode,      \* -1 while the process is alive
    runs,          \* how often the synthesizer has run (synthesizer runs only)
    origManifest,  \* package.json before the first of these runs
    firstText,     \* package.json after the first of these runs
    lastWrote      \* whether the last of these runs wrote package.json

inputVars == <<host, flags, cfgSource, unhandled>>
diskVars == <<manifestFile, dist, written>>
utilVars == <<cfgLoad, configs, pkgRead, pkg>>
taskVars == <<builds, options, entries, stubs, manifestTask, pendingText>>
extraVars == <<extra1, extra2, floats>>
endVars == <<failed, error, doneReported, exitCode>>
synthVars == <<runs, origManifest, firstText, lastWrote>>

vars == <<inputVars, diskVars, pc, resetSt, utilVars, taskVars, extraVars, endVars, synthVars>>

Alive == exitCode = -1

\* a file of the output directory
DistFile(kind, file, n) == [kind |-> kind, file |-> file, n |-> n]

StaleFile == DistFile("stale", <<>>, 0)

IsStub(f) == f.kind = "stub"

(***************************************************************************)
(* The driver `run`, lines 22-144, and the top-level catch, lines 285-293  *)
(***************************************************************************)
\* the config sources and manifests the driver is run on
DriverSources ==
    {[kind |-> "value", async |-> FALSE, val |-> D_a],
     [kind |-> "value", async |-> FALSE, val |-> Arr(<<D_a, D_fooBar>>)],
     [kind |-> "function", async |-> TRUE, val |-> D_fooBar],
     [kind |-> "value", async |-> FALSE, val |-> Arr(<<>>)],
     [kind |-> "value", async |-> FALSE, val |-> JNull],
     [kind |-> "function", async |-> FALSE, val |-> JNull],
     [kind |-> "value", async |-> FALSE, val |-> JStr(S_src)],
     [kind |-> "function", async |-> FALSE, val |-> JStr(S_src)]}

DriverManifests == {ManifestWith(JUndefined, FALSE), ManifestWith(JStr(S_indexJs), TRUE)}

IdleTasks ==
    /\ pc = "start"
    /\ resetSt = "idle"
    /\ pkgRead = "idle"
    /\ pkg = JUndefined
    /\ configs = <<>>
    /\ builds = <<>>
    /\ options = <<>>
    /\ stubs = <<>>
    /\ manifestTask = "none"
    /\ pendingText = JUndefined
    /\ extra1 = "none"
    /\ extra2 = "none"
    /\ floats = <<>>
    /\ failed = {}
    /\ error = "none"
    /\ doneReported = FALSE
    /\ exitCode = -1
    /\ dist = {StaleFile}
    /\ written = {}

NoSynth ==
    /\ runs = 0
    /\ origManifest = JUndefined
    /\ firstText = JUndefined
    /\ lastWrote = FALSE

\* the driver is followed for one-shot runs, without the watch flag; the
\* option layers are followed with and without it under SpecMerge
Init ==
    /\ host \in Hosts
    /\ flags \in [reset : BOOLEAN, optimized : BOOLEAN, watch : {FALSE}]
    /\ cfgSource \in DriverSources
    /\ unhandled \in {"throw", "warn"}
    /\ manifestFile \in DriverManifests
    /\ cfgLoad = "idle"
    /\ entries = <<>>
    /\ IdleTasks
    /\ NoSynth

\* the rejection reaches run().catch: console.error, process.exit(1)
Die(cause) ==
    /\ pc' = "exit"
    /\ error' = cause
    /\ exitCode' = 1

\* lines 23-39: the three loads are started, then the reset if asked for
Begin ==
    /\ Alive /\ pc = "start"
    /\ cfgLoad' = "loading"
    /\ pkgRead' = "reading"
    /\ resetSt' = IF flags.reset THEN "running" ELSE "idle"
    /\ pc' = IF flags.reset THEN "reset" ELSE "awaitUtils"
    /\ UNCHANGED <<inputVars, diskVars, configs, pkg, taskVars, extraVars, endVars, synthVars>>

\* line 29 throws on a null or undefined export: the import promise rejects
ImportThrow ==
    /\ Alive /\ cfgLoad = "loading" /\ ExportThrows(cfgSource)
    /\ cfgLoad' = "failed"
    /\ failed' = failed \cup {"config"}
    /\ UNCHANGED <<inputVars, diskVars, pc, resetSt, configs, pkgRead, pkg, taskVars, extraVars, error, doneReported, exitCode, synthVars>>

\* line 29, and getOptionsArray on an export that is no function, lines
\* 150-153
LoadValue ==
    /\ Alive /\ cfgLoad = "loading" /\ cfgSource.kind = "value"
    /\ ~ExportThrows(cfgSource)
    /\ configs' = getOptionsArray(Unwrap(cfgSource))
    /\ cfgLoad' = "ok"
    /\ UNCHANGED <<inputVars, diskVars, pc, resetSt, pkgRead, pkg, taskVars, extraVars, endVars, synthVars>>

\* line 155: config({}) is called
CallFactory ==
    /\ Alive /\ cfgLoad = "loading" /\ cfgSource.kind = "function"
    /\ cfgLoad' = "called"
    /\ UNCHANGED <<inputVars, diskVars, pc, resetSt, configs, pkgRead, pkg, taskVars, extraVars, endVars, synthVars>>

\* line 155: its awaited result is pushed
AwaitFactory ==
    /\ Alive /\ cfgLoad = "called"
    /\ configs' = getOptionsArray(cfgSource)
    /\ cfgLoad' = "ok"
    /\ UNCHANGED <<inputVars, diskVars, pc, resetSt, pkgRead, pkg, taskVars, extraVars, endVars, synthVars>>

\* the import or the config function fails
LoadFail ==
    /\ Alive /\ cfgLoad \in {"loading", "called"}
    /\ cfgLoad' = "failed"
    /\ failed' = failed \cup {"config"}
    /\ UNCHANGED <<inputVars, diskVars, pc, resetSt, configs, pkgRead, pkg, taskVars, extraVars, error, doneReported, exitCode, synthVars>>

\* lines 32-34
ReadPkg ==
    /\ Alive /\ pkgRead = "reading"
    /\ pkg' = manifestFile
    /\ pkgRead' = "ok"
    /\ UNCHANGED <<inputVars, diskVars, pc, resetSt, cfgLoad, configs, taskVars, extraVars, endVars, synthVars>>

ReadPkgFail ==
    /\ Alive /\ pkgRead = "reading"
    /\ pkgRead' = "failed"
    /\ failed' = failed \cup {"manifest read"}
    /\ UNCHANGED <<inputVars, diskVars, pc, resetSt, cfgLoad, configs, pkg, taskVars, extraVars, error, doneReported, exitCode, synthVars>>

\* emptyDir completes: the output directory is empty
FinishReset ==
    /\ Alive /\ resetSt = "running"
    /\ dist' = {}
    /\ resetSt' = "done"
    /\ UNCHANGED <<inputVars, manifestFile, written, pc, utilVars, taskVars, extraVars, endVars, synthVars>>

FailReset ==
    /\ Alive /\ resetSt = "running"
    /\ resetSt' = "failed"
    /\ failed' = failed \cup {"reset"}
    /\ UNCHANGED <<inputVars, diskVars, pc, utilVars, taskVars, extraVars, error, doneReported, exitCode, synthVars>>

\* mutant: emptyDir is not awaited
AfterResetNoAwait ==
    /\ Alive /\ pc = "reset"
    /\ pc' = "awaitUtils"
    /\ UNCHANGED <<inputVars, diskVars, resetSt, utilVars, taskVars, extraVars, endVars, synthVars>>

\* line 38: `await emptyDir(...)` resumes or throws
AfterReset ==
    /\ Alive /\ pc = "reset" /\ resetSt \in {"done", "failed"}
    /\ IF resetSt = "done"
       THEN pc' = "awaitUtils" /\ UNCHANGED <<error, exitCode>>
       ELSE Die("reset")
    /\ UNCHANGED <<inputVars, diskVars, resetSt, utilVars, taskVars, extraVars, failed, doneReported, synthVars>>

\* `utils` rejects while `run` still awaits emptyDir: nothing handles the
\* rejection yet, and a runtime that throws on unhandled rejections ends the
\* process
CrashUnhandledUtils ==
    /\ Alive /\ pc = "reset" /\ unhandled = "throw"
    /\ cfgLoad = "failed" \/ pkgRead = "failed"
    /\ Die("unhandled")
    /\ UNCHANGED <<inputVars, diskVars, resetSt, utilVars, taskVars, extraVars, failed, doneReported, synthVars>>

\* line 41: `await utils` (Promise.all rejects with the first failure)
AwaitUtils ==
    /\ Alive /\ pc = "awaitUtils"
    /\ \/ /\ cfgLoad = "failed" \/ pkgRead = "failed"
          /\ Die("utils")
       \/ /\ cfgLoad = "ok" /\ pkgRead = "ok"
          /\ pc' = "checkConfigs"
          /\ UNCHANGED <<error, exitCode>>
    /\ UNCHANGED <<inputVars, diskVars, resetSt, utilVars, taskVars, extraVars, failed, doneReported, synthVars>>

\* mutant: the length check never throws
CheckConfigsNoThrow ==
    /\ Alive /\ pc = "checkConfigs"
    /\ pc' = "startBuilds"
    /\ UNCHANGED <<inputVars, diskVars, resetSt, utilVars, taskVars, extraVars, endVars, synthVars>>

\* lines 45-47
CheckConfigs ==
    /\ Alive /\ pc = "checkConfigs"
    /\ IF Len(configs) < 1
       THEN Die("config")
       ELSE pc' = "startBuilds" /\ UNCHANGED <<error, exitCode>>
    /\ UNCHANGED <<inputVars, diskVars, resetSt, utilVars, taskVars, extraVars, failed, doneReported, synthVars>>

\* line 51: one build per descriptor is started, on the merged options
StartBuilds ==
    /\ Alive /\ pc = "startBuilds"
    /\ builds' = [i \in 1..Len(configs) |-> "running"]
    /\ options' = LET base == getBaseOptions(host, flags)
                  IN  [i \in 1..Len(configs) |->
                          JObj(mergeOptions(configs[i], base.overrides, base.defaults))]
    /\ pc' = "resolveEntries"
    /\ UNCHANGED <<inputVars, diskVars, resetSt, utilVars, entries, stubs, manifestTask, pendingText, extraVars, endVars, synthVars>>

\* mutant: the stubs are generated whatever the optimized flag says
StubTasksAlways(optimized, es) ==
    [i \in 1..Len(es) |-> [file |-> es[i].file, st |-> "ensure"]]

\* the stub tasks line 63 starts for an entry list
StubTasks(optimized, es) ==
    IF optimized THEN <<>> ELSE [i \in 1..Len(es) |-> [file |-> es[i].file, st |-> "ensure"]]

\* lines 53-64: the entry list, and a stub task per entry unless optimized
ResolveAndStubs ==
    /\ Alive /\ pc = "resolveEntries"
    /\ IF \A i \in 1..Len(configs) : Destructurable(configs[i])
       THEN /\ entries' = ResolveEntries(configs)
            /\ stubs' = StubTasks(flags.optimized, entries')
            /\ pc' = "startManifest"
            /\ UNCHANGED <<error, exitCode>>
       ELSE /\ Die("type")
            /\ UNCHANGED <<entries, stubs>>
    /\ UNCHANGED <<inputVars, diskVars, resetSt, utilVars, builds, options, manifestTask, pendingText, extraVars, failed, doneReported, synthVars>>

\* lines 66-82: updatePackageJson runs up to its writeFile
StartManifest ==
    /\ Alive /\ pc = "startManifest"
    /\ LET r == updatePackageJson(host, pkg, entries \o PrebuildEntries)
       IN  /\ pkg' = r.pkg
           /\ manifestTask' = IF r.wrote THEN "writing" ELSE "noop"
           /\ pendingText' = r.text
    /\ pc' = "join"
    /\ UNCHANGED <<inputVars, diskVars, resetSt, cfgLoad, configs, pkgRead, builds, options, entries, stubs, extraVars, endVars, synthVars>>

\* a per-descriptor build completes: its artifacts are in the output directory
BuildDone(i) ==
    /\ Alive /\ builds[i] = "running"
    /\ builds' = [builds EXCEPT ![i] = "done"]
    /\ dist' = dist \cup {DistFile("artifact", <<>>, i)}
    /\ written' = written \cup {DistFile("artifact", <<>>, i)}
    /\ UNCHANGED <<inputVars, manifestFile, pc, resetSt, utilVars, options, entries, stubs, manifestTask, pendingText, extraVars, endVars, synthVars>>

BuildFail(i) ==
    /\ Alive /\ builds[i] = "running"
    /\ builds' = [builds EXCEPT ![i] = "failed"]
    /\ failed' = failed \cup {"build"}
    /\ UNCHANGED <<inputVars, diskVars, pc, resetSt, utilVars, options, entries, stubs, manifestTask, pendingText, extraVars, error, doneReported, exitCode, synthVars>>

\* generateDTSMapperFile, lines 221-229: ensureFile creates the stub file,
\* writeFile fills it
StubStep(tasks, i) ==
    [tasks EXCEPT ![i].st = IF tasks[i].st = "ensure" THEN "write" ELSE "done"]

StubProgress(i) ==
    /\ Alive /\ stubs[i].st \in {"ensure", "write"}
    /\ stubs' = StubStep(stubs, i)
    /\ dist' = dist \cup {DistFile("stub", StubPath(host, stubs[i].file), 0)}
    /\ written' = written \cup {DistFile("stub", StubPath(host, stubs[i].file), 0)}
    /\ UNCHANGED <<inputVars, manifestFile, pc, resetSt, utilVars, builds, options, entries, manifestTask, pendingText, extraVars, endVars, synthVars>>

StubFail(i) ==
    /\ Alive /\ stubs[i].st \in {"ensure", "write"}
    /\ stubs' = [stubs EXCEPT ![i].st = "failed"]
    /\ failed' = failed \cup {"stub"}
    /\ UNCHANGED <<inputVars, diskVars, pc, resetSt, utilVars, builds, options, entries, manifestTask, pendingText, extraVars, error, doneReported, exitCode, synthVars>>

\* line 276: writeFile of package.json completes
ManifestWritten ==
    /\ Alive /\ manifestTask = "writing"
    /\ manifestFile' = pendingText
    /\ manifestTask' = "done"
    /\ UNCHANGED <<inputVars, dist, written, pc, resetSt, utilVars, builds, options, entries, stubs, pendingText, extraVars, endVars, synthVars>>

ManifestFail ==
    /\ Alive /\ manifestTask = "writing"
    /\ manifestTask' = "failed"
    /\ failed' = failed \cup {"manifest write"}
    /\ UNCHANGED <<inputVars, diskVars, pc, resetSt, utilVars, builds, options, entries, stubs, pendingText, extraVars, error, doneReported, exitCode, synthVars>>

AllDone(tasks) == \A i \in 1..Len(tasks) : tasks[i] = "done"

AllStubsDone(tasks) == \A i \in 1..Len(tasks) : tasks[i].st = "done"

\* mutant: the build tasks are not among the tasks joined
TasksFulfilledNoBuilds ==
    /\ AllStubsDone(stubs)
    /\ manifestTask \in {"done", "noop"}

\* mutant: only the build tasks are joined
TasksFulfilledBuildsOnly ==
    AllDone(builds)

\* the tasks Promise.all of line 84 waits for have all fulfilled
TasksFulfilled ==
    /\ AllDone(builds)
    /\ AllStubsDone(stubs)
    /\ manifestTask \in {"done", "noop"}

TaskRejected ==
    \/ \E i \in 1..Len(builds) : builds[i] = "failed"
    \/ \E i \in 1..Len(stubs) : stubs[i].st = "failed"
    \/ manifestTask = "failed"

\* line 84: `await Promise.all(tasks)`, then line 86 starts the first extra build
JoinTasks ==
    /\ Alive /\ pc = "join"
    /\ \/ /\ TaskRejected
          /\ Die("task")
          /\ UNCHANGED extra1
       \/ /\ TasksFulfilled
          /\ extra1' = "running"
          /\ pc' = "extra1"
          /\ UNCHANGED <<error, exitCode>>
    /\ UNCHANGED <<inputVars, diskVars, resetSt, utilVars, taskVars, extra2, floats, failed, doneReported, synthVars>>

\* lines 86-112 complete; lines 114-118 start the three prebuild stub tasks
\* and await the array of their promises, which waits for none of them; line
\* 120 starts the second extra build
Extra1Done ==
    /\ Alive /\ pc = "extra1" /\ extra1 = "running"
    /\ extra1' = "done"
    /\ dist' = dist \cup {DistFile("extra", <<>>, 1)}
    /\ written' = written \cup {DistFile("extra", <<>>, 1)}
    /\ floats' = [i \in 1..Len(PrebuildFiles) |-> [file |-> PrebuildFiles[i], st |-> "ensure"]]
    /\ extra2' = "running"
    /\ pc' = "extra2"
    /\ UNCHANGED <<inputVars, manifestFile, resetSt, utilVars, taskVars, endVars, synthVars>>

Extra1Fail ==
    /\ Alive /\ pc = "extra1" /\ extra1 = "running"
    /\ extra1' = "failed"
    /\ failed' = failed \cup {"extra build 1"}
    /\ Die("extra1")
    /\ UNCHANGED <<inputVars, diskVars, resetSt, utilVars, taskVars, extra2, floats, doneReported, synthVars>>

\* a prebuild stub task goes on, awaited by nobody
FloatProgress(i) ==
    /\ Alive /\ floats[i].st \in {"ensure", "write"}
    /\ floats' = StubStep(floats, i)
    /\ dist' = dist \cup {DistFile("stub", StubPath(host, floats[i].file), 0)}
    /\ written' = written \cup {DistFile("stub", StubPath(host, floats[i].file), 0)}
    /\ UNCHANGED <<inputVars, manifestFile, pc, resetSt, utilVars, taskVars, extra1, extra2, endVars, synthVars>>

\* it fails: an unhandled rejection, which ends the process or only warns
FloatFail(i) ==
    /\ Alive /\ floats[i].st \in {"ensure", "write"}
    /\ floats' = [floats EXCEPT ![i].st = "failed"]
    /\ failed' = failed \cup {"prebuild stub"}
    /\ IF unhandled = "throw"
       THEN Die("unhandled")
       ELSE UNCHANGED <<pc, error, exitCode>>
    /\ UNCHANGED <<inputVars, diskVars, resetSt, utilVars, taskVars, extra1, extra2, doneReported, synthVars>>

\* lines 120-144: the second extra build completes and `run` resolves
Extra2Done ==
    /\ Alive /\ pc = "extra2" /\ extra2 = "running"
    /\ extra2' = "done"
    /\ dist' = dist \cup {DistFile("extra", <<>>, 2)}
    /\ written' = written \cup {DistFile("extra", <<>>, 2)}
    /\ doneReported' = TRUE
    /\ pc' = "resolved"
    /\ UNCHANGED <<inputVars, manifestFile, resetSt, utilVars, taskVars, extra1, floats, failed, error, exitCode, synthVars>>

Extra2Fail ==
    /\ Alive /\ pc = "extra2" /\ extra2 = "running"
    /\ extra2' = "failed"
    /\ failed' = failed \cup {"extra build 2"}
    /\ Die("extra2")
    /\ UNCHANGED <<inputVars, diskVars, resetSt, utilVars, taskVars, extra1, floats, doneReported, synthVars>>

\* nothing is pending any more: the process ends by itself, with status 0
ExitClean ==
    /\ Alive /\ pc = "resolved"
    /\ \A i \in 1..Len(floats) : floats[i].st \in {"done", "failed"}
    /\ exitCode' = 0
    /\ pc' = "exit"
    /\ UNCHANGED <<inputVars, diskVars, resetSt, utilVars, taskVars, extraVars, failed, error, doneReported, synthVars>>

Next ==
    \/ Begin
    \/ ImportThrow
    \/ LoadValue
    \/ CallFactory
    \/ AwaitFactory
    \/ LoadFail
    \/ ReadPkg
    \/ ReadPkgFail
    \/ FinishReset
    \/ FailReset
    \/ AfterReset
    \/ CrashUnhandledUtils
    \/ AwaitUtils
    \/ CheckConfigs
    \/ StartBuilds
    \/ ResolveAndStubs
    \/ StartManifest
    \/ \E i \in 1..Len(builds) : BuildDone(i)
    \/ \E i \in 1..Len(builds) : BuildFail(i)
    \/ \E i \in 1..Len(stubs) : StubProgress(i)
    \/ \E i \in 1..Len(stubs) : StubFail(i)
    \/ ManifestWritten
    \/ ManifestFail
    \/ JoinTasks
    \/ Extra1Done
    \/ Extra1Fail
    \/ \E i \in 1..Len(floats) : FloatProgress(i)
    \/ \E i \in 1..Len(floats) : FloatFail(i)
    \/ Extra2Done
    \/ Extra2Fail
    \/ ExitClean

Spec == Init /\ [][Next]_vars

(***************************************************************************)
(* The config loader on its own: every shape of config source              *)
(***************************************************************************)
InitLoad ==
    /\ host = "posix"
    /\ flags = [reset |-> FALSE, optimized |-> FALSE, watch |-> FALSE]
    /\ cfgSource \in ConfigSources
    /\ unhandled = "throw"
    /\ manifestFile = ManifestWith(JUndefined, TRUE)
    /\ cfgLoad = "loading"
    /\ entries = <<>>
    /\ IdleTasks
    /\ NoSynth

NextLoad ==
    \/ ImportThrow
    \/ LoadValue
    \/ CallFactory
    \/ AwaitFactory
    \/ LoadFail

SpecLoad == InitLoad /\ [][NextLoad]_vars

(***************************************************************************)
(* The manifest synthesizer on its own: updatePackageJson is run on a      *)
(* manifest and an entry list, and again on the manifest it wrote          *)
(***************************************************************************)
EntryFiles == {F_a, F_fooBar}

EntryTags == {T_cjs, T_esm, T_iife, T_umd}

EntryLists == SeqsUpTo([file : EntryFiles, format : EntryTags], MaxEntries)

InitSynth ==
    /\ host \in Hosts
    /\ flags = [reset |-> FALSE, optimized |-> FALSE, watch |-> FALSE]
    /\ cfgSource = [kind |-> "value", async |-> FALSE, val |-> Arr(<<>>)]
    /\ unhandled = "throw"
    /\ manifestFile \in Manifests
    /\ cfgLoad = "idle"
    /\ entries \in EntryLists
    /\ IdleTasks
    /\ runs = 0
    /\ origManifest = manifestFile
    /\ firstText = JUndefined
    /\ lastWrote = FALSE

\* package.json is read and parsed, updatePackageJson runs and its write
\* completes
Synthesize ==
    /\ runs < MaxRuns
    /\ LET r == updatePackageJson(host, manifestFile, entries)
           text == IF r.wrote THEN r.text ELSE manifestFile
       IN  /\ pkg' = r.pkg
           /\ manifestFile' = text
           /\ lastWrote' = r.wrote
           /\ firstText' = IF runs = 0 THEN text ELSE firstText
    /\ runs' = runs + 1
    /\ UNCHANGED <<inputVars, dist, written, pc, resetSt, cfgLoad, configs, pkgRead, taskVars, extraVars, endVars, origManifest>>

SpecSynth == InitSynth /\ [][Synthesize]_vars

(***************************************************************************)
(* The option merge on its own: the run up to the start of the builds, on  *)
(* descriptors that set fields of defaults and of overrides, with and      *)
(* without the watch flag                                                  *)
(***************************************************************************)
InitMerge ==
    /\ host \in Hosts
    /\ flags \in [reset : {FALSE}, optimized : BOOLEAN, watch : BOOLEAN]
    /\ cfgSource \in {[kind |-> "value", async |-> FALSE, val |-> Arr(ds)] :
                         ds \in SeqsUpTo(MergeDescriptors, MaxConfigs)}
    /\ unhandled = "throw"
    /\ manifestFile = ManifestWith(JUndefined, TRUE)
    /\ cfgLoad = "idle"
    /\ entries = <<>>
    /\ IdleTasks
    /\ NoSynth

NextMerge ==
    \/ Begin
    \/ LoadValue
    \/ ReadPkg
    \/ AwaitUtils
    \/ CheckConfigs
    \/ StartBuilds

SpecMerge == InitMerge /\ [][NextMerge]_vars

(***************************************************************************)
(* The entry resolver on its own: the run up to the manifest write, on     *)
(* descriptors with every shape of entry, without the build and stub tasks *)
(* making progress                                                         *)
(***************************************************************************)
InitResolve ==
    /\ host \in Hosts
    /\ flags \in [reset : {FALSE}, optimized : BOOLEAN, watch : {FALSE}]
    /\ cfgSource \in {[kind |-> "value", async |-> FALSE, val |-> Arr(ds)] : ds \in ResolveLists}
    /\ unhandled = "throw"
    /\ manifestFile = ManifestWith(JUndefined, TRUE)
    /\ cfgLoad = "idle"
    /\ entries = <<>>
    /\ IdleTasks
    /\ NoSynth

NextResolve ==
    \/ Begin
    \/ LoadValue
    \/ ReadPkg
    \/ AwaitUtils
    \/ CheckConfigs
    \/ StartBuilds
    \/ ResolveAndStubs
    \/ StartManifest
    \/ ManifestWritten

SpecResolve == InitResolve /\ [][NextResolve]_vars

(***************************************************************************)
(* Properties of the driver (checked under Spec)                           *)
(***************************************************************************)
SomeBuildRunning == \E i \in 1..Len(builds) : builds[i] = "running"

Step4Started == stubs # <<>> \/ manifestTask # "none"

StubWritten == \E f \in written : IsStub(f)

\* C1, as claimed: stub generation and manifest synthesis start only after
\* every per-descriptor build task has completed, so none of them is under
\* way while a build task is still running.
C1_Step4AfterBuildsCompleted == SomeBuildRunning => ~Step4Started

\* C1, amended: stub generation and manifest synthesis start only after every
\* per-descriptor build task has been started (one per descriptor), and the
\* first extra build starts only after all builds, all stub tasks and the
\* manifest task have completed.
C1_Step4AfterBuildsStarted ==
    /\ Step4Started => (Len(configs) >= 1 /\ Len(builds) = Len(configs))
    /\ extra1 # "none" =>
           /\ \A i \in 1..Len(builds) : builds[i] = "done"
           /\ \A i \in 1..Len(stubs) : stubs[i].st = "done"
           /\ manifestTask \in {"done", "noop"}

\* a stub file and the manifest are written while a build is still running,
\* and the run goes on to the first extra build
C1_Witness_WriteDuringBuild ==
    /\ SomeBuildRunning
    /\ StubWritten
    /\ manifestTask = "done"
    /\ Len(builds) = 2

\* C2: with the reset flag set, emptying the output directory has completed
\* before any build task starts and before any artifact, stub or manifest
\* write is issued; no file the run wrote is deleted by the reset.
C2_ResetBeforeBuildsAndWrites ==
    /\ (flags.reset /\ (builds # <<>> \/ Step4Started \/ written # {} \/ extra1 # "none"))
           => resetSt = "done"
    /\ resetSt = "running" => (builds = <<>> /\ ~Step4Started /\ written = {})
    /\ written \subseteq dist

\* a run with the reset flag has emptied the directory and then written
\* artifacts, stubs and the manifest
C2_Witness_ResetThenWrites ==
    /\ flags.reset
    /\ resetSt = "done"
    /\ StaleFile \notin dist
    /\ StubWritten
    /\ \E f \in written : f.kind = "artifact"
    /\ manifestTask = "done"

\* C3, as claimed: with the optimized flag set no type-stub file is written
\* at any point of the run.
C3_NoStubWhenOptimized == flags.optimized => ~StubWritten

PrebuildStubs == {DistFile("stub", StubPath(host, PrebuildFiles[i]), 0) : i \in 1..Len(PrebuildFiles)}

\* C3, amended: with the optimized flag set no type stub is generated for
\* the entries of the descriptors (step 4); the only stub files the run
\* writes are those of the three fixed prebuild entries, after the first
\* extra build.
C3_OnlyPrebuildStubsWhenOptimized ==
    flags.optimized =>
        /\ stubs = <<>>
        /\ \A f \in written : IsStub(f) => (f \in PrebuildStubs /\ extra1 = "done")

\* an optimized run with entries has passed step 4 and written a prebuild stub
C3_Witness_OptimizedRun ==
    /\ flags.optimized
    /\ entries # <<>>
    /\ pc = "resolved"
    /\ StubWritten

\* C5: whenever an operation of the run has failed, the process ends with a
\* non-zero status and completion is not reported; status 0 and the
\* completion report come only when every operation succeeded.
C5_AnyFailureAborts ==
    (pc = "exit" /\ failed # {}) => (exitCode = 1 /\ ~doneReported)

\* C6: when the normalised descriptor list is empty, no build task is ever
\* started and nothing is written; the run cannot end with status 0, and
\* once the loads and the reset have succeeded it ends with the
\* configuration error.
C6_EmptyConfigAborts ==
    (cfgLoad = "ok" /\ configs = <<>>) =>
        /\ builds = <<>>
        /\ ~Step4Started
        /\ written = {}
        /\ exitCode # 0
        /\ pc \in {"start", "reset", "awaitUtils", "checkConfigs", "exit"}
        /\ (pc = "exit" /\ pkgRead = "ok" /\ resetSt # "failed") => error = "config"

\* the run has ended with the configuration error
C6_Witness_ConfigError ==
    /\ cfgLoad = "ok"
    /\ configs = <<>>
    /\ error = "config"
    /\ exitCode = 1

\* C13: the first extra build starts only after every stub task of step 4
\* has written its file and the manifest task has finished (package.json
\* holds the text it wrote); the second extra build starts only after the
\* first has completed and left its artifacts.
C13_ExtraBuildsInOrder ==
    /\ extra1 # "none" =>
           /\ \A i \in 1..Len(stubs) :
                  /\ stubs[i].st = "done"
                  /\ DistFile("stub", StubPath(host, stubs[i].file), 0) \in written
           /\ manifestTask \in {"done", "noop"}
           /\ manifestTask = "done" => manifestFile = pendingText
    /\ extra1 # "done" => extra2 = "none"
    /\ extra2 # "none" => DistFile("extra", <<>>, 1) \in written

\* the second extra build is running after a step 4 with stub tasks and a
\* manifest write
C13_Witness_SecondExtraRunning ==
    /\ extra2 = "running"
    /\ extra1 = "done"
    /\ Len(stubs) >= 2
    /\ manifestTask = "done"

\* a value that is no array, no object and no function
ScalarShape(v) == v.t \in {"string", "number", "boolean", "null", "undefined"}

\* C16: when the loaded export, or the awaited result of the exported
\* function, is a string, a number, a boolean, null or undefined, the
\* descriptor list is empty: no build task is started, and the run ends with
\* the configuration error and never with status 0.
C16_ScalarGivesEmptyList ==
    (cfgLoad = "ok" /\ ScalarShape(Unwrap(cfgSource).val)) =>
        /\ configs = <<>>
        /\ builds = <<>>
        /\ exitCode # 0
        /\ (pc = "exit" /\ pkgRead = "ok" /\ resetSt # "failed") => error = "config"

\* C19: when the run has reported completion, nothing it started is still
\* in flight or has failed: every build, every stub task of step 4, the
\* manifest write, both extra builds and the stub tasks of the three fixed
\* prebuild entries are done.
C19_NothingInFlightAtCompletion ==
    doneReported =>
        /\ AllDone(builds)
        /\ AllStubsDone(stubs)
        /\ manifestTask \in {"done", "noop"}
        /\ extra1 = "done" /\ extra2 = "done"
        /\ Len(floats) = Len(PrebuildFiles)
        /\ AllStubsDone(floats)

(***************************************************************************)
(* Properties of the manifest synthesizer (checked under SpecSynth)        *)
(***************************************************************************)
OrigExports == ObjGet(origManifest.obj, S_exports)

NowExports == ObjGet(manifestFile.obj, S_exports)

\* C4: for an exports value that is neither absent nor a plain mapping (a
\* string, an array, null) the synthesizer writes nothing and leaves the
\* manifest unchanged, in memory and on disk.
C4_GateKeepsOtherShapes ==
    (runs >= 1 /\ OrigExports.t \notin {"undefined", "object"}) =>
        /\ ~lastWrote
        /\ manifestFile = origManifest
        /\ pkg = origManifest

\* C7: for a manifest that passes the gate, a further run with the same
\* entry list on the manifest the first run wrote leaves package.json
\* identical, member for member in the same order.
C7_Idempotent ==
    (runs >= 2 /\ ExportsGate(OrigExports)) => (lastWrote /\ manifestFile = firstText)

\* a second run on a manifest the first run changed
C7_Witness_SecondRun ==
    /\ runs = 2
    /\ ExportsGate(OrigExports)
    /\ firstText # origManifest
    /\ Len(entries) = 2
    /\ Len(NowExports.obj) = 3

S_distA == <<".", "/", "d", "i", "s", "t", "/", "a">>
S_distADts == <<".", "/", "d", "i", "s", "t", "/", "a", ".", "d", ".", "t", "s">>
S_distAJs == <<".", "/", "d", "i", "s", "t", "/", "a", ".", "j", "s">>
S_distAMjs == <<".", "/", "d", "i", "s", "t", "/", "a", ".", "m", "j", "s">>
S_distFooBar == <<".", "/", "d", "i", "s", "t", "/", "f", "o", "o", "/", "b", "a", "r">>

EntryIdx == 1..Len(entries)

\* the entries that contribute condition cond to the group keyed key
Contributors(key, cond) ==
    {i \in EntryIdx : OutputKey(host, entries[i].file) = key /\ formatToType(entries[i].format) = cond}

\* C8: every synthesized group has types = outputKey + ".d.ts" and a require
\* or module field exactly for the conditions of the formats built for that
\* outputKey, valued outputKey + the extension of such a format; "./src/a.ts"
\* built as CommonJS only gives { types "./dist/a.d.ts", require
\* "./dist/a.js" } without module, and built as ES module too gives the same
\* group with module "./dist/a.mjs" added.
C8_FormatMapping ==
    (runs >= 1 /\ lastWrote) =>
        /\ \A n \in 1..Len(NowExports.obj) :
               LET m == NowExports.obj[n]
               IN  m.k # S_packageJson =>
                       /\ ObjGet(m.v.obj, S_types) = JStr(m.k \o S_dts)
                       /\ \A cond \in {S_require, S_module} :
                              /\ HasKey(m.v.obj, cond) <=> Contributors(m.k, cond) # {}
                              /\ HasKey(m.v.obj, cond) =>
                                     \E i \in Contributors(m.k, cond) :
                                         ObjGet(m.v.obj, cond) = JStr(m.k \o formatToExt(entries[i].format))
                       /\ \A j \in 1..Len(m.v.obj) : m.v.obj[j].k \in {S_types, S_require, S_module}
        /\ entries = <<[file |-> F_a, format |-> T_cjs]>> =>
               ObjGet(NowExports.obj, S_distA) =
                   JObj(<<[k |-> S_types, v |-> JStr(S_distADts)],
                          [k |-> S_require, v |-> JStr(S_distAJs)]>>)
        /\ entries = <<[file |-> F_a, format |-> T_cjs], [file |-> F_a, format |-> T_esm]>> =>
               ObjGet(NowExports.obj, S_distA) =
                   JObj(<<[k |-> S_types, v |-> JStr(S_distADts)],
                          [k |-> S_require, v |-> JStr(S_distAJs)],
                          [k |-> S_module, v |-> JStr(S_distAMjs)]>>)

NoBackslash(str) == \A i \in 1..Len(str) : str[i] # "\\"

\* C9: on every host the key of an entry's group is the same forward-slash
\* path: "./src/foo/bar.ts" is keyed "./dist/foo/bar", and no key of the
\* synthesized exports holds a backslash.
C9_PortableOutputKey ==
    (runs >= 1 /\ lastWrote) =>
        /\ \A n \in 1..Len(NowExports.obj) : NoBackslash(NowExports.obj[n].k)
        /\ (\E i \in EntryIdx : entries[i].file = F_fooBar /\ formatToType(entries[i].format) # <<>>)
               => HasKey(NowExports.obj, S_distFooBar)

\* the keys of members, each once
KeysOf(members) == {members[i].k : i \in 1..Len(members)}

\* the group keys of the entries whose format is in the static table
SynthesizedKeys ==
    {OutputKey(host, entries[i].file) : i \in {j \in EntryIdx : formatToType(entries[j].format) # <<>>}}

\* C12: whenever the synthesizer mutates the manifest, exports is exactly
\* the pin "./package.json" -> "./package.json" as first member, followed by
\* the groups synthesized from the entry list, one per output key; every
\* subpath of the previous exports that the entries do not synthesize is
\* gone, in memory and on disk.
C12_ExportsReplaced ==
    (runs >= 1 /\ lastWrote) =>
        /\ NowExports.t = "object"
        /\ NowExports.obj[1] = [k |-> S_packageJson, v |-> JStr(S_packageJson)]
        /\ SubSeq(NowExports.obj, 2, Len(NowExports.obj)) = Grouped(host, entries)
        /\ KeysOf(NowExports.obj) = {S_packageJson} \cup SynthesizedKeys
        /\ Cardinality(KeysOf(NowExports.obj)) = Len(NowExports.obj)
        /\ \A k \in KeysOf(OrigExports.obj) \ ({S_packageJson} \cup SynthesizedKeys) :
               ~HasKey(NowExports.obj, k)
        /\ ObjGet(pkg.obj, S_exports) = NowExports

\* a manifest with a hand-written subpath was rewritten from two entries of
\* different output keys
C12_Witness_LegacyDropped ==
    /\ runs = 1
    /\ lastWrote
    /\ HasKey(OrigExports.obj, S_legacy)
    /\ ~HasKey(NowExports.obj, S_legacy)
    /\ Len(NowExports.obj) = 3

\* the last entry of the list that contributes condition cond to the group
\* keyed key
LastContributor(key, cond) ==
    CHOOSE i \in Contributors(key, cond) : \A j \in Contributors(key, cond) : j <= i

\* C18: a condition of a group has the path of the last entry of the list
\* that contributes it (an esm and an iife entry of one output key both set
\* "module"); an entry whose format tag is not in the table adds nothing:
\* its output key has a group only if an entry with a known tag shares the
\* key, and every group has types and at least one condition.
C18_LastWinsUnknownSkipped ==
    (runs >= 1 /\ lastWrote) =>
        /\ \A key \in SynthesizedKeys, cond \in {S_require, S_module} :
               Contributors(key, cond) # {} =>
                   ObjGet(ObjGet(NowExports.obj, key).obj, cond) =
                       JStr(key \o formatToExt(entries[LastContributor(key, cond)].format))
        /\ \A i \in EntryIdx :
               formatToType(entries[i].format) = <<>> =>
                   (HasKey(NowExports.obj, OutputKey(host, entries[i].file))
                        <=> OutputKey(host, entries[i].file) \in SynthesizedKeys)
        /\ \A n \in 2..Len(NowExports.obj) :
               /\ NowExports.obj[n].k \in SynthesizedKeys
               /\ Len(NowExports.obj[n].v.obj) >= 2

\* an esm entry and then an iife entry of the same file were synthesized:
\* "module" is the iife entry's path
C18_Witness_IifeAfterEsm ==
    /\ runs = 1
    /\ lastWrote
    /\ entries = <<[file |-> F_a, format |-> T_esm], [file |-> F_a, format |-> T_iife]>>
    /\ Len(NowExports.obj) = 2
    /\ ObjGet(NowExports.obj[2].v.obj, S_module) = JStr(NowExports.obj[2].k \o S_js)

(***************************************************************************)
(* Properties of the config loader (checked under SpecLoad)                *)
(***************************************************************************)
IsDescriptorList(v) == IsArray(v) /\ \A i \in 1..Len(v.obj) : v.obj[i].v \in Descriptors

\* C10: the loaded list is the same for every way of expressing the same
\* descriptors: a descriptor d gives <<d>>, an array gives its elements in
\* order, and a sync or async function returning either gives what the
\* value itself gives.
C10_SameListForEveryShape ==
    cfgLoad = "ok" =>
        /\ cfgSource.val \in Descriptors => configs = <<cfgSource.val>>
        /\ IsDescriptorList(cfgSource.val) =>
               configs = [i \in 1..Len(cfgSource.val.obj) |-> cfgSource.val.obj[i].v]

\* an async function returning an array of two descriptors has been loaded
C10_Witness_AsyncFactoryArray ==
    /\ cfgLoad = "ok"
    /\ cfgSource.kind = "function"
    /\ cfgSource.async
    /\ IsDescriptorList(cfgSource.val)
    /\ Len(configs) = 2
    /\ configs[1] # configs[2]

(***************************************************************************)
(* Properties of the option layers (checked under SpecMerge)               *)
(***************************************************************************)
Layers == getBaseOptions(host, flags)

\* C11: the effective options of every build are the per-field shallow
\* merge defaults < descriptor < overrides: a field of overrides has the
\* overrides' value, a field of the descriptor that overrides lack has the
\* descriptor's value (whole, also when it is undefined or a function), a
\* field of defaults that both lack has the defaults' value, and there is no
\* other field.
C11_MergePrecedence ==
    \A i \in 1..Len(options) :
        LET eff == options[i].obj
            cfg == configs[i].obj
        IN  /\ KeysOf(eff) = KeysOf(Layers.defaults) \cup KeysOf(cfg) \cup KeysOf(Layers.overrides)
            /\ Cardinality(KeysOf(eff)) = Len(eff)
            /\ \A k \in KeysOf(eff) :
                   ObjGet(eff, k) =
                       IF HasKey(Layers.overrides, k) THEN ObjGet(Layers.overrides, k)
                       ELSE IF HasKey(cfg, k) THEN ObjGet(cfg, k)
                       ELSE ObjGet(Layers.defaults, k)

\* two builds were started, one on a descriptor that sets fields of
\* overrides and one on a descriptor that sets fields of defaults
C11_Witness_AllThreeLayers ==
    /\ Len(options) = 2
    /\ configs = <<D_clean, D_outDir>>
    /\ ObjGet(options[1].obj, S_clean) = JBoolean(FALSE)
    /\ ObjGet(options[2].obj, S_outDir) = JStr(S_out)
    /\ ObjGet(options[2].obj, <<"s", "h", "i", "m", "s">>) = JBoolean(FALSE)
    /\ HasKey(options[2].obj, S_sourcemap)
    /\ ObjGet(options[2].obj, S_sourcemap) = JUndefined

OverridesWin(eff) ==
    /\ ObjGet(eff, S_watch) = JBoolean(flags.watch)
    /\ ObjGet(eff, S_clean) = JBoolean(FALSE)

\* the fields of defaults that carry the output directory, tree-shaking and
\* the minification policy
PolicyFields == {S_outDir, S_treeshake, S_esbuildOptions}

\* C15, as claimed: the options of every build have watch and clean from
\* overrides, and outDir, treeshake and the minification policy
\* (esbuildOptions) from defaults, whatever the descriptor holds.
C15_DefaultsAlwaysSupply ==
    \A i \in 1..Len(options) :
        /\ OverridesWin(options[i].obj)
        /\ \A k \in PolicyFields : ObjGet(options[i].obj, k) = ObjGet(Layers.defaults, k)

\* C15, amended: the options of every build have watch = the watch flag and
\* clean = false, whatever the descriptor holds; outDir, treeshake and
\* esbuildOptions have the defaults' values (the dist directory below cwd,
\* true, minification of whitespace and syntax as the optimized flag says
\* and never of identifiers) when the descriptor does not set the field,
\* and the descriptor's value, whole, when it does.
C15_OverridesWinDefaultsFill ==
    \A i \in 1..Len(options) :
        LET eff == options[i].obj
            cfg == configs[i].obj
            min == ObjGet(eff, S_esbuildOptions).obj
        IN  /\ OverridesWin(eff)
            /\ \A k \in PolicyFields : HasKey(cfg, k) => ObjGet(eff, k) = ObjGet(cfg, k)
            /\ ~HasKey(cfg, S_outDir) => ObjGet(eff, S_outDir) = JStr(Join(host, S_cwd, <<"d", "i", "s", "t">>))
            /\ ~HasKey(cfg, S_treeshake) => ObjGet(eff, S_treeshake) = JBoolean(TRUE)
            /\ ~HasKey(cfg, S_esbuildOptions) =>
                   /\ ObjGet(min, S_minifyWhitespace) = JBoolean(flags.optimized)
                   /\ ObjGet(min, S_minifySyntax) = JBoolean(flags.optimized)
                   /\ ObjGet(min, S_minifyIdentifiers) = JBoolean(FALSE)

\* in a watch run, builds were started on a descriptor with its own outDir
\* and on one with its own esbuildOptions and on one asking for a clean
\* build
C15_Witness_DescriptorSetsPolicy ==
    /\ flags.watch
    /\ Len(options) = 2
    /\ configs[1] = D_outDir
    /\ configs[2] \in {D_minify, D_clean}
    /\ ObjGet(options[1].obj, S_outDir) = JStr(S_out)
    /\ ObjGet(options[1].obj, S_treeshake) = JBoolean(FALSE)
    /\ ObjGet(options[2].obj, S_watch) = JBoolean(TRUE)

(***************************************************************************)
(* Properties of the entry resolver (checked under SpecResolve)            *)
(***************************************************************************)
\* lines 53-60 have run
EntriesResolved == pc \in {"startManifest", "join"}

\* the source paths of a descriptor's entry: the elements of a list, the
\* values of a mapping
PathsOf(d) ==
    LET e == ObjGet(d.obj, S_entry)
    IN  IF e.t \in {"array", "object"} THEN [i \in 1..Len(e.obj) |-> e.obj[i].v.str] ELSE <<>>

\* the formats of a descriptor: the elements of a list, or the one format
FormatsOf(d) ==
    LET f == ObjGet(d.obj, S_format)
    IN  IF f.t = "array" THEN [i \in 1..Len(f.obj) |-> f.obj[i].v.str] ELSE <<f.str>>

\* path by path, each path with every format in the order of the formats
CrossProduct(paths, fmts) ==
    [n \in 1..(Len(paths) * Len(fmts)) |->
        [file |-> paths[((n - 1) \div Len(fmts)) + 1], format |-> fmts[((n - 1) % Len(fmts)) + 1]]]

ListMapOrNoEntry(d) == ObjGet(d.obj, S_entry).t \in {"array", "object", "undefined"}

\* C17: for descriptors whose entry is a list, a mapping or absent, the
\* entry list is, in descriptor order, one (file, format) pair for every
\* source path crossed with every format: the values of a mapping (keys
\* discarded), the elements of a list, one format taken as a one-element
\* list, and nothing for a descriptor without entry.
C17_ResolveEntries ==
    (EntriesResolved /\ \A i \in 1..Len(configs) : ListMapOrNoEntry(configs[i])) =>
        entries = Flatten([i \in 1..Len(configs) |->
                      CrossProduct(PathsOf(configs[i]), FormatsOf(configs[i]))])

\* a mapping of two paths with two formats and a mapping with one format
\* were resolved
C17_Witness_MappingAndScalar ==
    /\ EntriesResolved
    /\ configs = <<D_mapTwo, D_extra>>
    /\ Len(entries) = 5
    /\ entries[2] = [file |-> F_a, format |-> T_esm]
    /\ entries[5] = [file |-> F_extra, format |-> T_esm]

S_distIndex == <<".", "/", "d", "i", "s", "t", "/", "i", "n", "d", "e", "x">>
S_distIndexDts == <<".", "/", "d", "i", "s", "t", "/", "i", "n", "d", "e", "x", ".", "d", ".", "t", "s">>
S_distIndexJs == <<".", "/", "d", "i", "s", "t", "/", "i", "n", "d", "e", "x", ".", "j", "s">>
S_distIndexMjs == <<".", "/", "d", "i", "s", "t", "/", "i", "n", "d", "e", "x", ".", "m", "j", "s">>
S_distExtra == <<".", "/", "d", "i", "s", "t", "/", "e", "x", "t", "r", "a">>
S_distExtraDts == <<".", "/", "d", "i", "s", "t", "/", "e", "x", "t", "r", "a", ".", "d", ".", "t", "s">>
S_distExtraMjs == <<".", "/", "d", "i", "s", "t", "/", "e", "x", "t", "r", "a", ".", "m", "j", "s">>

\* the exports of the manifest in memory, once updatePackageJson has run
PkgExports == ObjGet(pkg.obj, S_exports)

\* the group keys of the three fixed prebuild entries
PrebuildKeys == {OutputKey(host, PrebuildFiles[i]) : i \in 1..Len(PrebuildFiles)}

\* C14: for the descriptors { entry "./src/index.ts", format [cjs, esm] }
\* and { entry { extra: "./src/extra.ts" }, format esm } the entry list is
\* exactly (index, cjs), (index, esm), (extra, esm), and the groups these
\* entries give the manifest are keyed "./dist/index" (types, require,
\* module) and "./dist/extra" (types, module) and by nothing else.
C14_EndToEnd ==
    (pc = "join" /\ configs = <<D_index, D_extra>>) =>
        /\ entries = <<[file |-> F_index, format |-> T_cjs],
                       [file |-> F_index, format |-> T_esm],
                       [file |-> F_extra, format |-> T_esm]>>
        /\ KeysOf(PkgExports.obj) \ ({S_packageJson} \cup PrebuildKeys) = {S_distIndex, S_distExtra}
        /\ ObjGet(PkgExports.obj, S_distIndex) =
               JObj(<<[k |-> S_types, v |-> JStr(S_distIndexDts)],
                      [k |-> S_require, v |-> JStr(S_distIndexJs)],
                      [k |-> S_module, v |-> JStr(S_distIndexMjs)]>>)
        /\ ObjGet(PkgExports.obj, S_distExtra) =
               JObj(<<[k |-> S_types, v |-> JStr(S_distExtraDts)],
                      [k |-> S_module, v |-> JStr(S_distExtraMjs)]>>)

====
